---- MODULE Spec2Model ----
(***************************************************************************)
(* Model of the congressional-hearing-tool (cht) acquisition workflow:     *)
(*   cht/helper.py    congress_from_id, valid_congress, to_congress        *)
(*   cht/database.py  the files table and its operations                   *)
(*   cht/consumer.py  get_list, download_documents                         *)
(*   cht/cli.py       the download and status subcommands                  *)
(*                                                                         *)
(* Python strings that the code scans character by character (selections   *)
(* and document ids) are sequences of one-character strings.  Format names *)
(* are atoms ("txt", "pdf", ...).                                          *)
(***************************************************************************)
EXTENDS Integers, Sequences, FiniteSets, TLC

VARIABLES
    files,        \* the files table: (id, format) -> [congress, path]
    disk,         \* the paths that exist on the filesystem
    pc,           \* position of the running command
    selection,    \* args.selection of the download command
    fmts,         \* args.format of the download command, as iterated
    selIdx,       \* cli.download: position in args.selection
    to_download,  \* cli.download: the expanded target list
    fmtIdx,       \* cli.download: position in args.format
    format,       \* download_documents: its format parameter
    count,        \* download_documents: targets taken from ids so far
    failed,       \* download_documents: ids whose link request failed
    listed,       \* sessions a listing request was issued for (this call)
    fetched,      \* ids a link request was issued for (this call), in order
    written,      \* paths written by this download_documents call
    dbUsed,       \* whether the running command has opened the catalog
    error,        \* how the running command was aborted, if it was
    runs,         \* number of download commands started
    rolled,       \* (id, format) rows deleted by the rollback of an earlier call
    drifted,      \* (id, format) rows whose path status cleared and that no
                  \* download_documents call has taken up since
    last          \* record of the last step taken

vars == <<files, disk, pc, selection, fmts, selIdx, to_download, fmtIdx, format,
          count, failed, listed, fetched, written, dbUsed, error, runs, rolled,
          drifted, last>>

-----------------------------------------------------------------------------
(* Bounds of the model *)

MaxRuns == 2        \* download commands per behaviour
MaxSel  == 2        \* length of args.selection
MaxListing == 2     \* length of a listing registered directly (SpecDb)

-----------------------------------------------------------------------------
(* cht/__init__.py and cht/helper.py *)

Year == 2026

to_congress(year) == (year - 1789) \div 2 + 1

CURR_CONGRESS == to_congress(Year)

valid_congress(congress) == congress > 104 /\ congress < CURR_CONGRESS

Digits == {"0", "1", "2", "3", "4", "5", "6", "7", "8", "9"}

isdigit(char) == char \in Digits

isnumeric(s) == Len(s) > 0 /\ \A i \in 1..Len(s) : isdigit(s[i])

DigitVal(char) ==
    CASE char = "0" -> 0 [] char = "1" -> 1 [] char = "2" -> 2
      [] char = "3" -> 3 [] char = "4" -> 4 [] char = "5" -> 5
      [] char = "6" -> 6 [] char = "7" -> 7 [] char = "8" -> 8
      [] char = "9" -> 9

RECURSIVE int(_)
int(s) ==
    IF Len(s) = 1 THEN DigitVal(s[1])
    ELSE int(SubSeq(s, 1, Len(s) - 1)) * 10 + DigitVal(s[Len(s)])

\* The loop of congress_from_id: collect the first run of digits.
RECURSIVE LeadingDigits(_, _, _)
LeadingDigits(id, i, congress_str) ==
    IF i > Len(id) THEN congress_str
    ELSE IF isdigit(id[i]) THEN LeadingDigits(id, i + 1, Append(congress_str, id[i]))
    ELSE IF Len(congress_str) > 0 THEN congress_str
    ELSE LeadingDigits(id, i + 1, congress_str)

congress_from_id(id) == int(LeadingDigits(id, 1, <<>>))

-----------------------------------------------------------------------------
(* The archive and the command line: the inputs of the model *)

IdA1 == <<"C", "1", "0", "5", "h", "1">>    \* House hearing of the 105th
IdAS == <<"C", "1", "0", "5", "s", "1">>    \* Senate hearing of the 105th
IdB1 == <<"C", "1", "0", "6", "h", "1">>    \* House hearing of the 106th
IdC1 == <<"C", "1", "1", "9", "h", "1">>    \* House hearing of the 119th

Ids == {IdA1, IdAS, IdB1, IdC1}

Sel105 == <<"1", "0", "5">>
Sel119 == <<"1", "1", "9">>

Targets == {Sel105, Sel119, IdA1, IdAS, IdB1, IdC1}

Selections == UNION {[1..n -> Targets] : n \in 1..MaxSel}

\* args.format as given with -f: a list of format names.
FormatArgs == {<<"txt">>, <<"pdf">>}

\* The pages the archive serves for the hhrg listing of a congress; every page
\* but the last carries a nextPage cursor.  The archive repeats an id within
\* a page and returns an id of another congress; Senate hearings are not listed.
ArchivePages(congress) ==
    CASE congress = 105 -> << <<IdA1, IdA1>>, <<IdB1>> >>
      [] congress = 106 -> << <<IdB1>> >>
      [] congress = 119 -> << <<IdC1>> >>
      [] OTHER -> << <<>> >>

OK == 200
StatusCodes == {200, 404}

-----------------------------------------------------------------------------
(* cht/database.py: the files table *)

\* A NULL path; a stored path is a non-empty tuple
NULL == <<>>

Key(id, fmt) == <<id, fmt>>

HasRow(fs, id, fmt) == Key(id, fmt) \in DOMAIN fs

\* add_file as INSERT OR REPLACE: an existing row is overwritten
add_file_replace(fs, id, fmt, congress, path) ==
    [k \in DOMAIN fs \cup {Key(id, fmt)} |->
        IF k = Key(id, fmt) THEN [congress |-> congress, path |-> path] ELSE fs[k]]

\* INSERT OR IGNORE INTO files VALUES (id, format, congress, path)
add_file(fs, id, fmt, congress, path) ==
    IF HasRow(fs, id, fmt) THEN fs
    ELSE fs @@ (Key(id, fmt) :> [congress |-> congress, path |-> path])

\* DELETE FROM files WHERE id=? AND format=?
delete_file(fs, id, fmt) ==
    [k \in DOMAIN fs \ {Key(id, fmt)} |-> fs[k]]

\* update_path as an upsert: a row is created when there is none
update_path_upsert(fs, id, fmt, path) ==
    [k \in DOMAIN fs \cup {Key(id, fmt)} |->
        IF k # Key(id, fmt) THEN fs[k]
        ELSE IF HasRow(fs, id, fmt) THEN [fs[k] EXCEPT !.path = path]
        ELSE [congress |-> 0, path |-> path]]

\* UPDATE OR IGNORE files SET path=? WHERE id=? AND format=?
update_path(fs, id, fmt, path) ==
    [k \in DOMAIN fs |-> IF k = Key(id, fmt) THEN [fs[k] EXCEPT !.path = path]
                         ELSE fs[k]]

\* file_status without the Path(path).exists() test
file_status_unchecked(fs, dk, id, fmt) ==
    IF ~HasRow(fs, id, fmt) THEN 0
    ELSE IF fs[Key(id, fmt)].path = NULL THEN 0
    ELSE 1

\* 0: no row or a null path; 1: the path exists; 2: the path does not exist
file_status(fs, dk, id, fmt) ==
    IF ~HasRow(fs, id, fmt) THEN 0
    ELSE IF fs[Key(id, fmt)].path = NULL THEN 0
    ELSE IF fs[Key(id, fmt)].path \in dk THEN 1
    ELSE 2

\* get_files_congresses over the rows that still lack a path
get_files_congresses_pending(fs, fmt) ==
    {fs[k].congress : k \in {j \in DOMAIN fs : j[2] = fmt /\ fs[j].path = NULL}}

\* SELECT DISTINCT congress FROM files WHERE format=?
get_files_congresses(fs, fmt) ==
    {fs[k].congress : k \in {j \in DOMAIN fs : j[2] = fmt}}

\* An optional argument: None, or a value
None == <<>>
Some(v) == <<v>>

RowOf(fs, k) ==
    [id |-> k[1], format |-> k[2], congress |-> fs[k].congress, path |-> fs[k].path]

\* get_files: one SELECT per combination of the optional filters; with a
\* format and neither congress nor downloaded the SELECT has no WHERE clause.
get_files(fs, fmt, congress, downloaded) ==
    LET all == {RowOf(fs, k) : k \in DOMAIN fs}
        has(r) == IF downloaded = Some(TRUE) THEN r.path # NULL ELSE r.path = NULL
    IN IF fmt = None
       THEN IF congress = None /\ downloaded = None THEN all
            ELSE IF congress = None THEN {r \in all : has(r)}
            ELSE IF downloaded = None THEN {r \in all : Some(r.congress) = congress}
            ELSE {r \in all : has(r) /\ Some(r.congress) = congress}
       ELSE IF congress = None /\ downloaded = None THEN all
            ELSE IF congress = None THEN {r \in all : has(r) /\ Some(r.format) = fmt}
            ELSE IF downloaded = None
                 THEN {r \in all : Some(r.congress) = congress /\ Some(r.format) = fmt}
            ELSE {r \in all : has(r) /\ Some(r.congress) = congress
                                     /\ Some(r.format) = fmt}

\* The loop of refresh_paths over the rows get_files() returned:
\* UPDATE files SET PATH=NULL WHERE id=? AND format=? when file_status is 2.
RECURSIVE RefreshLoop(_, _, _)
RefreshLoop(fs, dk, rows) ==
    IF rows = {} THEN fs
    ELSE LET file == CHOOSE r \in rows : TRUE
             cleared == IF file_status(fs, dk, file.id, file.format) = 2
                        THEN update_path(fs, file.id, file.format, NULL)
                        ELSE fs
         IN RefreshLoop(cleared, dk, rows \ {file})

\* refresh_paths without the file_status test: every stored path is cleared
refresh_paths_all(fs, dk) ==
    [k \in DOMAIN fs |-> [fs[k] EXCEPT !.path = NULL]]

\* refresh_paths returning after its first UPDATE
refresh_paths_first(fs, dk) ==
    LET missing == {k \in DOMAIN fs : file_status(fs, dk, k[1], k[2]) = 2}
    IN IF missing = {} THEN fs
       ELSE LET k == CHOOSE j \in missing : TRUE
            IN update_path(fs, k[1], k[2], NULL)

\* refresh_paths that clears nothing
refresh_paths_none(fs, dk) == fs

refresh_paths(fs, dk) == RefreshLoop(fs, dk, get_files(fs, None, None, None))

-----------------------------------------------------------------------------
(* cht/consumer.py *)

\* get_list: request the pages of a congress in cursor order, appending the
\* packageIds of each; failAt is the page request the archive answers with a
\* non-200 status (0: none), which ends the process with SystemExit.
RECURSIVE ListPages(_, _, _, _)
ListPages(pages, i, failAt, ids) ==
    IF i = failAt THEN [ok |-> FALSE, ids |-> <<>>, requests |-> i]
    ELSE IF i = Len(pages) THEN [ok |-> TRUE, ids |-> ids \o pages[i], requests |-> i]
    ELSE ListPages(pages, i + 1, failAt, ids \o pages[i])

\* get_list without the pagination loop: the first page only
get_list_first_page(congress, failAt) ==
    IF failAt = 1 THEN [ok |-> FALSE, ids |-> <<>>, requests |-> 1]
    ELSE [ok |-> TRUE, ids |-> ArchivePages(congress)[1], requests |-> 1]

\* get_list returning what it has collected when a request fails
get_list_partial(congress, failAt) ==
    IF failAt = 0 THEN ListPages(ArchivePages(congress), 1, 0, <<>>)
    ELSE IF failAt = 1 THEN [ok |-> TRUE, ids |-> <<>>, requests |-> 1]
    ELSE [ok |-> TRUE, requests |-> failAt,
          ids |-> ListPages(SubSeq(ArchivePages(congress), 1, failAt - 1),
                            1, 0, <<>>).ids]

get_list(congress, failAt) == ListPages(ArchivePages(congress), 1, failAt, <<>>)

\* OUTPUT_PATH / format / str(congress) / f"{id}.{format}"
OutputPath(id, fmt) == <<fmt, congress_from_id(id), id>>

\* for congress_id in congress_ids: db.add_file(congress_id, format, congress, None)
RECURSIVE RegisterListing(_, _, _, _)
RegisterListing(fs, congress_ids, fmt, congress) ==
    IF congress_ids = <<>> THEN fs
    ELSE RegisterListing(add_file(fs, Head(congress_ids), fmt, congress, NULL),
                         Tail(congress_ids), fmt, congress)

\* for id in failed: db.delete_file(id, format)
RECURSIVE DeleteFailed(_, _, _)
DeleteFailed(fs, ids, fmt) ==
    IF ids = <<>> THEN fs
    ELSE DeleteFailed(delete_file(fs, Head(ids), fmt), Tail(ids), fmt)

SeqToSet(s) == {s[i] : i \in 1..Len(s)}

FilterSeq(s, congress) ==
    LET F[i \in 0..Len(s)] ==
            IF i = 0 THEN <<>>
            ELSE IF congress_from_id(s[i]) = congress THEN Append(F[i - 1], s[i])
            ELSE F[i - 1]
    IN F[Len(s)]

-----------------------------------------------------------------------------
(* The state after construction: an empty catalog, no command running *)

NoEvent == [op |-> "none"]

Init ==
    /\ files = << >>
    /\ disk = {}
    /\ pc = "idle"
    /\ selection = <<>>
    /\ fmts = <<>>
    /\ selIdx = 1
    /\ to_download = <<>>
    /\ fmtIdx = 1
    /\ format = "none"
    /\ count = 0
    /\ failed = <<>>
    /\ listed = {}
    /\ fetched = <<>>
    /\ written = {}
    /\ dbUsed = FALSE
    /\ error = "none"
    /\ runs = 0
    /\ rolled = {}
    /\ drifted = {}
    /\ last = NoEvent

-----------------------------------------------------------------------------
(* cht/cli.py: the download subcommand *)

\* download is invoked with args.selection and args.format; the API key is
\* assumed saved, so lines 169-178 fall through.
StartDownload(sel, fa) ==
    /\ pc = "idle"
    /\ runs < MaxRuns
    /\ runs' = runs + 1
    /\ selection' = sel
    /\ fmts' = fa
    /\ selIdx' = 1
    /\ to_download' = <<>>
    /\ fmtIdx' = 1
    /\ format' = "none"
    /\ count' = 0
    /\ failed' = <<>>
    /\ listed' = {}
    /\ fetched' = <<>>
    /\ written' = {}
    /\ dbUsed' = FALSE
    /\ error' = "none"
    /\ pc' = "expand"
    /\ last' = [op |-> "start"]
    /\ UNCHANGED <<files, disk, rolled, drifted>>

\* One pass of the loop over args.selection (cli.py lines 182-196).
ExpandStep(failAt) ==
    /\ pc = "expand"
    /\ LET sel == selection[selIdx]
           more == IF selIdx = Len(selection) THEN "call" ELSE "expand"
       IN IF isnumeric(sel)
          THEN IF valid_congress(int(sel))
               THEN LET gl == get_list(int(sel), failAt)
                    IN /\ failAt \in 0..Len(ArchivePages(int(sel)))
                       /\ listed' = listed \cup {int(sel)}
                       /\ last' = [op |-> "expand", congress |-> int(sel),
                                   refused |-> failAt,
                                   requests |-> gl.requests, ok |-> gl.ok,
                                   ids |-> gl.ids]
                       /\ IF gl.ok
                          THEN /\ to_download' =
                                      to_download \o FilterSeq(gl.ids, int(sel))
                               /\ pc' = more
                               /\ error' = error
                          ELSE /\ pc' = "aborted"
                               /\ error' = "api"
                               /\ to_download' = to_download
               ELSE /\ failAt = 0
                    /\ pc' = "aborted"
                    /\ error' = "validation"
                    /\ last' = [op |-> "invalid", congress |-> int(sel)]
                    /\ UNCHANGED <<to_download, listed>>
          ELSE /\ failAt = 0
               /\ to_download' = Append(to_download, sel)
               /\ pc' = more
               /\ last' = [op |-> "append"]
               /\ UNCHANGED <<error, listed>>
    /\ selIdx' = selIdx + 1
    /\ UNCHANGED <<files, disk, selection, fmts, fmtIdx, format, count, failed,
                   fetched, written, dbUsed, runs, rolled, drifted>>

\* for format in args.format: consumer.download_documents(to_download, format)
\* The entry of download_documents (consumer.py lines 67-71).
BeginRun ==
    /\ pc = "call"
    /\ fmtIdx <= Len(fmts)
    /\ format' = fmts[fmtIdx]
    /\ count' = 0
    /\ failed' = <<>>
    /\ listed' = {}
    /\ fetched' = <<>>
    /\ written' = {}
    /\ pc' = "loop"
    /\ last' = [op |-> "begin"]
    /\ UNCHANGED <<files, disk, selection, fmts, selIdx, to_download, fmtIdx,
                   dbUsed, error, runs, rolled, drifted>>

\* The process ends: download returned, or SystemExit was raised.
Exit ==
    /\ \/ pc = "call" /\ fmtIdx > Len(fmts)
       \/ pc = "aborted"
    /\ pc' = "idle"
    /\ selection' = <<>>
    /\ fmts' = <<>>
    /\ selIdx' = 1
    /\ to_download' = <<>>
    /\ fmtIdx' = 1
    /\ format' = "none"
    /\ count' = 0
    /\ failed' = <<>>
    /\ listed' = {}
    /\ fetched' = <<>>
    /\ written' = {}
    /\ dbUsed' = FALSE
    /\ error' = "none"
    /\ last' = [op |-> "exit"]
    /\ UNCHANGED <<files, disk, runs, rolled, drifted>>

-----------------------------------------------------------------------------
(* cht/consumer.py: download_documents *)

\* One pass of the loop over ids (consumer.py lines 73-118).  failAt is the
\* listing page the archive refuses (0: none), r1 the status of the link
\* request, r2 the status of the content request.
DownloadStep(failAt, r1, r2) ==
    /\ pc = "loop"
    /\ count < Len(to_download)
    /\ count' = count + 1
    /\ dbUsed' = TRUE
    /\ LET id == to_download[count + 1]
           congress == congress_from_id(id)
           path == OutputPath(id, format)
           unlisted == congress \notin get_files_congresses(files, format)
           gl == get_list(congress, failAt)
           registered == IF unlisted
                         THEN RegisterListing(files, gl.ids, format, congress)
                         ELSE files
           status == file_status(registered, disk, id, format)
           committed == IF status = 0
                        THEN update_path(registered, id, format, path)
                        ELSE registered
           done == SubSeq(to_download, 1, count + 1)
       IN /\ failAt \in (IF unlisted THEN 0..Len(ArchivePages(congress)) ELSE {0})
          /\ listed' = IF unlisted THEN listed \cup {congress} ELSE listed
          /\ IF unlisted /\ ~gl.ok
             THEN \* SystemExit leaves the with block and the function
                  /\ r1 = OK /\ r2 = OK
                  /\ pc' = "aborted"
                  /\ error' = "api"
                  /\ rolled' = rolled \ {Key(x, format) : x \in SeqToSet(done)}
                  /\ last' = [op |-> "iter", id |-> id, listing |-> unlisted,
                              refused |-> failAt,
                              requests |-> gl.requests, ok |-> FALSE,
                              ids |-> gl.ids, status |-> -1, fetch |-> FALSE, r1 |-> r1, r2 |-> r2,
                              wrote |-> FALSE]
                  /\ UNCHANGED <<files, disk, failed, fetched, written, drifted>>
             ELSE /\ files' = committed
                  /\ drifted' = drifted \ {Key(id, format)}
                  /\ UNCHANGED <<pc, error, rolled>>
                  /\ IF status = 1
                     THEN \* already downloaded: continue
                          /\ r1 = OK /\ r2 = OK
                          /\ last' = [op |-> "iter", id |-> id, listing |-> unlisted,
                                      refused |-> failAt,
                                      requests |-> IF unlisted THEN gl.requests ELSE 0,
                                      ok |-> TRUE,
                                      ids |-> IF unlisted THEN gl.ids ELSE <<>>,
                                      status |-> status, fetch |-> FALSE,
                                      r1 |-> r1, r2 |-> r2, wrote |-> FALSE]
                          /\ UNCHANGED <<disk, failed, fetched, written>>
                     ELSE /\ fetched' = Append(fetched, id)
                          /\ IF r1 # OK
                             THEN /\ r2 = OK
                                  /\ failed' = Append(failed, id)
                                  /\ UNCHANGED <<disk, written>>
                             ELSE \* the content response is written unchecked
                                  /\ disk' = disk \cup {path}
                                  /\ written' = written \cup {path}
                                  /\ failed' = failed
                          /\ last' = [op |-> "iter", id |-> id, listing |-> unlisted,
                                      refused |-> failAt,
                                      requests |-> IF unlisted THEN gl.requests ELSE 0,
                                      ok |-> TRUE,
                                      ids |-> IF unlisted THEN gl.ids ELSE <<>>,
                                      status |-> status, fetch |-> TRUE,
                                      r1 |-> r1, r2 |-> r2, wrote |-> (r1 = OK)]
    /\ UNCHANGED <<selection, fmts, selIdx, to_download, fmtIdx, format, runs>>

\* After the loop (consumer.py lines 120-130): delete the rows of the failed
\* ids and report them; download_documents returns to the loop over formats.
EndRun ==
    /\ pc = "loop"
    /\ count = Len(to_download)
    /\ files' = DeleteFailed(files, failed, format)
    /\ dbUsed' = TRUE
    /\ rolled' = (rolled \ {Key(x, format) : x \in SeqToSet(to_download)})
                     \cup {Key(x, format) : x \in SeqToSet(failed)}
    /\ fmtIdx' = fmtIdx + 1
    /\ pc' = "call"
    /\ last' = [op |-> "end", reported |-> failed]
    /\ UNCHANGED <<disk, selection, fmts, selIdx, to_download, format, count,
                   failed, listed, fetched, written, error, runs, drifted>>

-----------------------------------------------------------------------------
(* cht/cli.py: the status subcommand, and the environment *)

\* The three file sections of the status output.
StatusFormats == {"txt", "pdf", "xml"}

\* What status prints for the files of one format (cli.py lines 128-162):
\* nothing but "No ... downloaded" when get_files(format) is empty, else one
\* line "downloaded/total" per congress of get_files_congresses(format).
StatusSection(fs, fmt) ==
    IF Cardinality(get_files(fs, Some(fmt), None, None)) = 0
    THEN [shown |-> FALSE, lines |-> << >>]
    ELSE [shown |-> TRUE,
          lines |-> [congress \in get_files_congresses(fs, fmt) |->
                       [total |-> Cardinality(get_files(fs, Some(fmt), Some(congress), None)),
                        downloaded |-> Cardinality(get_files(fs, Some(fmt), Some(congress),
                                                             Some(TRUE)))]]]

StatusReport(fs) == [fmt \in StatusFormats |-> StatusSection(fs, fmt)]

\* status (cli.py lines 105-163): db.refresh_paths(), then the report.
Status ==
    /\ pc = "idle"
    /\ files' = refresh_paths(files, disk)
    /\ last' = [op |-> "status",
                 cleared |-> {k \in DOMAIN files : refresh_paths(files, disk)[k] # files[k]},
                 report |-> StatusReport(refresh_paths(files, disk))]
    /\ drifted' = drifted \cup {k \in DOMAIN files : refresh_paths(files, disk)[k] # files[k]}
    /\ UNCHANGED <<disk, pc, selection, fmts, selIdx, to_download, fmtIdx, format,
                   count, failed, listed, fetched, written, dbUsed, error, runs,
                   rolled>>

\* A downloaded file is deleted or moved away outside the tool, between commands.
ExternalRemove(path) ==
    /\ pc = "idle"
    /\ path \in disk
    /\ disk' = disk \ {path}
    /\ last' = [op |-> "remove", path |-> path]
    /\ UNCHANGED <<files, pc, selection, fmts, selIdx, to_download, fmtIdx, format,
                   count, failed, listed, fetched, written, dbUsed, error, runs,
                   rolled, drifted>>

-----------------------------------------------------------------------------

Next ==
    \/ \E sel \in Selections, fa \in FormatArgs : StartDownload(sel, fa)
    \/ \E failAt \in 0..2 : ExpandStep(failAt)
    \/ BeginRun
    \/ \E failAt \in 0..2, r1 \in StatusCodes, r2 \in StatusCodes :
           DownloadStep(failAt, r1, r2)
    \/ EndRun
    \/ Exit
    \/ Status
    \/ \E path \in disk : ExternalRemove(path)

Spec == Init /\ [][Next]_vars

-----------------------------------------------------------------------------
(* Properties of the download workflow, checked under Spec *)

\* A download_documents call is over: it returned, or it was cut short.
RunReturned == pc = "call" /\ last.op = "end"
RunAborted  == pc = "aborted" /\ format # "none"

Pending(fs, id, fmt) == HasRow(fs, id, fmt) /\ fs[Key(id, fmt)].path = NULL

\* C1: after a download_documents call has ended, no id whose link request
\* failed during the call has a files row for the call's format.
C1_FailureRollback ==
    (RunReturned \/ RunAborted) =>
        \A i \in 1..Len(failed) : ~HasRow(files, failed[i], format)

\* The same for the calls that return: the rollback runs after the loop.
C1_RollbackOnReturn ==
    RunReturned => \A i \in 1..Len(failed) : ~HasRow(files, failed[i], format)

\* C2: a non-200 answer to the link request or to the content request puts
\* the id in failed and leaves its destination path unwritten.
C2_NoWriteOnFailure ==
    (last.op = "iter" /\ last.fetch /\ (last.r1 # OK \/ last.r2 # OK)) =>
        /\ last.id \in SeqToSet(failed)
        /\ OutputPath(last.id, format) \notin written

\* C3: when a call returns, every target whose row an earlier call rolled
\* back was requested again, and if its file was written and it did not fail
\* in this call, its file_status is 1 (present).
C3_RecoveryByReinvocation ==
    [][(pc = "loop" /\ pc' = "call") =>
          \A i \in 1..Len(to_download) :
              LET x == to_download[i]
              IN Key(x, format) \in rolled =>
                    /\ x \in SeqToSet(fetched)
                    /\ (OutputPath(x, format) \in written /\ x \notin SeqToSet(failed))
                           => file_status(files', disk', x, format) = 1]_vars

\* C4: a call for one explicit id whose session had no row of the format (so
\* the session was listed) returns with a row for every listed id, each
\* sibling pending and the requested id present when its file was written.
C4_WholeSessionRegistration ==
    (/\ RunReturned
     /\ Len(selection) = 1
     /\ ~isnumeric(selection[1])
     /\ congress_from_id(selection[1]) \in listed) =>
        LET x == selection[1]
            listing == SeqToSet(get_list(congress_from_id(x), 0).ids)
        IN /\ \A y \in listing \ {x} : Pending(files, y, format)
           /\ (x \in listing /\ x \notin SeqToSet(failed)) => HasRow(files, x, format)
           /\ (OutputPath(x, format) \in written /\ x \notin SeqToSet(failed))
                  => file_status(files, disk, x, format) = 1

HasInvalidSession(sel) ==
    \E i \in 1..Len(sel) : isnumeric(sel[i]) /\ ~valid_congress(int(sel[i]))

\* C5: a download whose selection holds an invalid session number ends with
\* the validation error, and until then issues no listing request and no link
\* request and does not open the catalog.
C5_ValidationBeforeIO ==
    HasInvalidSession(selection) =>
        /\ pc \in {"expand", "aborted"}
        /\ pc = "aborted" => error = "validation"
        /\ listed = {}
        /\ fetched = <<>>
        /\ ~dbUsed

\* C6: no listing request is issued for, and no files row is owned by, a
\* session outside 105 .. CURR_CONGRESS - 1.
C6_OnlyValidSessions ==
    /\ \A c \in listed : valid_congress(c)
    /\ \A k \in DOMAIN files : valid_congress(files[k].congress)

\* C11: status turns every row whose file is gone into a pending row, and a
\* later download_documents pass over the id of a row status cleared issues
\* the link request again and, when both requests answer 200, leaves the row
\* with file_status 1 (present).
C11_DriftRepair ==
    [][/\ last'.op = "status" =>
              \A k \in DOMAIN files :
                  file_status(files, disk, k[1], k[2]) = 2 => Pending(files', k[1], k[2])
       /\ (pc = "loop" /\ count' = count + 1
              /\ Key(to_download[count + 1], format) \in drifted) =>
              /\ last'.fetch
              /\ (last'.r1 = OK /\ last'.r2 = OK) =>
                     file_status(files', disk', to_download[count + 1], format) = 1]_vars

\* The same for the passes that the listing request does not cut short.
C11_RepairUnlessAborted ==
    [][(pc = "loop" /\ count' = count + 1 /\ pc' # "aborted"
           /\ Key(to_download[count + 1], format) \in drifted) =>
           /\ last'.fetch
           /\ (last'.r1 = OK /\ last'.r2 = OK) =>
                  file_status(files', disk', to_download[count + 1], format) = 1]_vars

\* A get_list call was made by the last step (by cli.download for a session
\* number, or by download_documents for a congress without rows of the format).
ListingCalled == last.op = "expand" \/ (last.op = "iter" /\ last.listing)

ListingCongress ==
    IF last.op = "expand" THEN last.congress ELSE congress_from_id(last.id)

ListingReturned == ListingCalled /\ last.ok

\* C14: every id that get_list returns for a congress has that congress as
\* the number congress_from_id derives from it.
C14_ListingRevalidated ==
    ListingReturned =>
        \A i \in 1..Len(last.ids) : congress_from_id(last.ids[i]) = ListingCongress

\* C15: no id occurs twice in what get_list returns.
C15_ListingDeduplicated ==
    ListingReturned =>
        \A i, j \in 1..Len(last.ids) : i # j => last.ids[i] # last.ids[j]

RECURSIVE Flatten(_)
Flatten(pages) ==
    IF pages = <<>> THEN <<>> ELSE Head(pages) \o Flatten(Tail(pages))

\* C16: a get_list call that no request fails returns the ids of all the
\* pages of the congress, first page to the page without a nextPage cursor,
\* in page order, after exactly one request per page.
C16_PaginationComplete ==
    ListingReturned =>
        /\ last.ids = Flatten(ArchivePages(ListingCongress))
        /\ last.requests = Len(ArchivePages(ListingCongress))

\* get_list returned the ids of a listing of more than one page.
C16_Witness ==
    /\ ListingReturned
    /\ last.requests > 1
    /\ Len(last.ids) > Len(ArchivePages(ListingCongress)[1])

\* C17: a get_list call in which a request is answered with a non-200 status,
\* on the first page or a later one, ends the command with the API error:
\* no id reaches the target list, no row is added or changed, nothing is
\* fetched or written.
C17_ListingAllOrNothing ==
    [][(last'.op \in {"expand", "iter"} /\ last'.refused # 0) =>
          /\ pc' = "aborted"
          /\ error' = "api"
          /\ last'.ids = <<>>
          /\ to_download' = to_download
          /\ files' = files
          /\ disk' = disk
          /\ fetched' = fetched]_vars

\* download_documents was cut short by a failure of the request for the second
\* page of a listing, and the congress has no row of the format.
C17_Witness ==
    /\ last.op = "iter"
    /\ last.refused = 2
    /\ congress_from_id(last.id) \notin get_files_congresses(files, format)

\* C18: a pass in which the link request or the content request fails puts
\* the id in failed and leaves the loop running, and a loop that has put an
\* id in failed is left only by the report of failed, after the last target
\* has been taken.
C18_FailureIsolation ==
    [][/\ (last'.op = "iter" /\ last'.fetch /\ (last'.r1 # OK \/ last'.r2 # OK)) =>
              /\ pc' = "loop"
              /\ last'.id \in SeqToSet(failed')
       /\ (pc = "loop" /\ failed # <<>> /\ pc' # "loop") =>
              /\ last'.op = "end"
              /\ count = Len(to_download)
              /\ last'.reported = failed]_vars

\* What holds of a failed link request: the id is put in failed, the loop
\* goes on with the next target, which is skipped when its file_status is 1
\* and fetched otherwise; failed only grows during the loop, and a call that
\* returns has taken every target and reports failed.
C18_LinkFailureIsolation ==
    [][/\ (last'.op = "iter" /\ last'.fetch /\ last'.r1 # OK) =>
              /\ pc' = "loop"
              /\ count' = count + 1
              /\ last'.id \in SeqToSet(failed')
       /\ (last'.op = "iter" /\ pc' = "loop") =>
              /\ last'.fetch = (last'.status # 1)
              /\ \E i \in 0..1 : SubSeq(failed', 1, Len(failed') - i) = failed
       /\ last'.op = "end" =>
              /\ count = Len(to_download)
              /\ last'.reported = failed]_vars

\* C19: a pass over an id whose file is present, in a congress that has rows
\* of the format, requests no listing and no link, writes nothing, puts
\* nothing in failed and leaves the files table as it is.
C19_PresentIsNoOp ==
    [][(/\ pc = "loop"
        /\ count' = count + 1
        /\ HasRow(files, to_download[count + 1], format)
        /\ files[Key(to_download[count + 1], format)].path \in disk
        /\ \E k \in DOMAIN files :
               k[2] = format /\ files[k].congress = congress_from_id(to_download[count + 1])) =>
          /\ files' = files
          /\ disk' = disk
          /\ listed' = listed
          /\ fetched' = fetched
          /\ written' = written
          /\ failed' = failed
          /\ pc' = "loop"]_vars

\* A pass skipped an id of a congress whose rows of the format all have
\* their file.
C19_Witness ==
    /\ last.op = "iter"
    /\ ~last.listing
    /\ ~last.fetch
    /\ last.status = 1
    /\ \A k \in DOMAIN files :
           (k[2] = format /\ files[k].congress = congress_from_id(last.id))
               => files[k].path \in disk

\* C20: the lines status prints for a format are one per congress that owns
\* rows of the format, and each gives as total the number of those rows and
\* as downloaded the number of them whose file_status is 1.
C20_StatusCounts ==
    last.op = "status" =>
        \A fmt \in StatusFormats :
            LET rows(s) == {k \in DOMAIN files : k[2] = fmt /\ files[k].congress = s}
                lines == last.report[fmt].lines
            IN /\ DOMAIN lines = {files[k].congress : k \in {j \in DOMAIN files : j[2] = fmt}}
               /\ \A s \in DOMAIN lines :
                      /\ lines[s].total = Cardinality(rows(s))
                      /\ lines[s].downloaded =
                             Cardinality({k \in rows(s) :
                                             file_status(files, disk, k[1], k[2]) = 1})

\* status cleared the path of a row whose file was gone and printed a line
\* with fewer downloaded than total, and not zero.
C20_Witness ==
    /\ last.op = "status"
    /\ last.cleared # {}
    /\ \E fmt \in StatusFormats :
           \E s \in DOMAIN last.report[fmt].lines :
               /\ last.report[fmt].lines[s].downloaded > 0
               /\ last.report[fmt].lines[s].downloaded < last.report[fmt].lines[s].total
               /\ \E k \in last.cleared : k[2] = fmt /\ files[k].congress = s

\* C21: within one download_documents call no id is the target of more than
\* one link request.
C21_OneFetchPerTarget ==
    \A i, j \in 1..Len(fetched) : i # j => fetched[i] # fetched[j]

\* C22: the congress of every files row is the number congress_from_id
\* derives from the id of the row.
C22_OwnerIsDerivedSession ==
    \A k \in DOMAIN files : files[k].congress = congress_from_id(k[1])

\* C23: when a download_documents call is cut short by SystemExit, no target
\* it has taken is left with a stored path and no file (file_status 2), and
\* every id in failed has lost its row.
C23_RollbackSurvivesAbort ==
    RunAborted =>
        /\ \A i \in 1..count : file_status(files, disk, to_download[i], format) # 2
        /\ \A i \in 1..Len(failed) : ~HasRow(files, failed[i], format)

\* C24: when a download_documents call has returned, every file it wrote at
\* the destination path of a target is recorded as the path of the row of
\* that target and format.
C24_NoOrphanFiles ==
    RunReturned =>
        \A i \in 1..Len(to_download) :
            OutputPath(to_download[i], format) \in written =>
                /\ HasRow(files, to_download[i], format)
                /\ files[Key(to_download[i], format)].path
                       = OutputPath(to_download[i], format)

\* C25: get_files called with a format alone returns the rows of that format
\* and no other, and status shows the lines of a format exactly when the
\* table has a row of it.
C25_FormatOnlyQuery ==
    /\ \A fmt \in StatusFormats :
           get_files(files, Some(fmt), None, None)
               = {RowOf(files, k) : k \in {j \in DOMAIN files : j[2] = fmt}}
    /\ last.op = "status" =>
           \A fmt \in StatusFormats :
               last.report[fmt].shown = (\E k \in DOMAIN files : k[2] = fmt)

-----------------------------------------------------------------------------
(* The catalog on its own: the operations of cht/database.py on the files  *)
(* table, called with any arguments, and files appearing and disappearing  *)
(* on disk.  The command variables stay as Init leaves them.               *)

DbIds == {IdA1, IdB1}
DbFormats == {"txt", "pdf"}
DbCongresses == {105, 106}
DbPaths == {OutputPath(IdA1, "txt"), OutputPath(IdB1, "pdf")}
DbListings == UNION {[1..n -> DbIds] : n \in 1..MaxListing}

cmdVars == <<pc, selection, fmts, selIdx, to_download, fmtIdx, format, count,
             failed, listed, fetched, written, dbUsed, error, runs, rolled, drifted>>

\* consumer.py lines 86-87 with any listing: add_file(id, format, congress, None)
DbRegister(congress_ids, fmt, congress) ==
    /\ files' = RegisterListing(files, congress_ids, fmt, congress)
    /\ last' = [op |-> "register", ids |-> SeqToSet(congress_ids), format |-> fmt,
                congress |-> congress]
    /\ UNCHANGED <<disk, cmdVars>>

DbUpdatePath(id, fmt, path) ==
    /\ files' = update_path(files, id, fmt, path)
    /\ last' = [op |-> "update_path", id |-> id, format |-> fmt, path |-> path]
    /\ UNCHANGED <<disk, cmdVars>>

DbDeleteFile(id, fmt) ==
    /\ files' = delete_file(files, id, fmt)
    /\ last' = [op |-> "delete_file"]
    /\ UNCHANGED <<disk, cmdVars>>

\* after: the path of the update_path call that this call directly follows for
\* the same (id, format), if there is one
DbFileStatus(id, fmt) ==
    /\ last' = [op |-> "file_status", id |-> id, format |-> fmt,
                result |-> file_status(files, disk, id, fmt),
                after |-> IF last.op = "update_path" /\ last.id = id
                                                     /\ last.format = fmt
                          THEN Some(last.path) ELSE None]
    /\ UNCHANGED <<files, disk, cmdVars>>

DbRefreshPaths ==
    /\ files' = refresh_paths(files, disk)
    /\ last' = [op |-> "refresh_paths",
                cleared |-> {k \in DOMAIN files : refresh_paths(files, disk)[k] # files[k]},
                prev |-> IF last.op = "refresh_paths" THEN Some(last.cleared) ELSE None]
    /\ UNCHANGED <<disk, cmdVars>>

FsCreate(path) ==
    /\ path \notin disk
    /\ disk' = disk \cup {path}
    /\ last' = [op |-> "create"]
    /\ UNCHANGED <<files, cmdVars>>

FsRemove(path) ==
    /\ path \in disk
    /\ disk' = disk \ {path}
    /\ last' = [op |-> "remove"]
    /\ UNCHANGED <<files, cmdVars>>

NextDb ==
    \/ \E ids \in DbListings, fmt \in DbFormats, congress \in DbCongresses :
           DbRegister(ids, fmt, congress)
    \/ \E id \in DbIds, fmt \in DbFormats, path \in DbPaths : DbUpdatePath(id, fmt, path)
    \/ \E id \in DbIds, fmt \in DbFormats : DbDeleteFile(id, fmt)
    \/ \E id \in DbIds, fmt \in DbFormats : DbFileStatus(id, fmt)
    \/ DbRefreshPaths
    \/ \E path \in DbPaths : FsCreate(path)
    \/ \E path \in DbPaths : FsRemove(path)

SpecDb == Init /\ [][NextDb]_vars

-----------------------------------------------------------------------------
(* Properties of the catalog operations, checked under SpecDb *)

\* The four outcomes of a status query, by the stored row and the disk.
Outcome(fs, dk, id, fmt) ==
    IF ~HasRow(fs, id, fmt) THEN "unknown"
    ELSE IF fs[Key(id, fmt)].path = NULL THEN "pending"
    ELSE IF fs[Key(id, fmt)].path \in dk THEN "present"
    ELSE "missing"

\* C7: file_status tells the four outcomes apart: the value it has just
\* returned for one (id, format) differs from the value it returns for any
\* (id, format) with another outcome.
C7_FourOutcomes ==
    last.op = "file_status" =>
        \A id \in DbIds, fmt \in DbFormats :
            Outcome(files, disk, id, fmt) # Outcome(files, disk, last.id, last.format)
                => file_status(files, disk, id, fmt) # last.result

\* What file_status does tell apart: 0 for unknown and pending alike, 1 for
\* present, 2 for missing.
C7_ThreeValues ==
    last.op = "file_status" =>
        last.result = (CASE Outcome(files, disk, last.id, last.format) = "present" -> 1
                         [] Outcome(files, disk, last.id, last.format) = "missing" -> 2
                         [] OTHER -> 0)

RowCount(fs, congress, fmt) ==
    Cardinality({k \in DOMAIN fs : k[2] = fmt /\ fs[k].congress = congress})

\* C8: registering a listing keeps every existing row as it is, adds a row
\* with a null path and the given congress for exactly the listed ids that
\* had none, and registering the same id set again for the same congress and
\* format leaves the row count of that (congress, format) unchanged.
C8_RegisterIdempotent ==
    [][last'.op = "register" =>
          /\ \A k \in DOMAIN files : k \in DOMAIN files' /\ files'[k] = files[k]
          /\ \A k \in DOMAIN files' \ DOMAIN files :
                 /\ k[1] \in last'.ids
                 /\ k[2] = last'.format
                 /\ files'[k] = [congress |-> last'.congress, path |-> NULL]
          /\ \A id \in last'.ids : HasRow(files', id, last'.format)
          /\ (last.op = "register" /\ last.ids = last'.ids
                 /\ last.format = last'.format /\ last.congress = last'.congress)
               => /\ files' = files
                  /\ RowCount(files', last'.congress, last'.format)
                         = RowCount(files, last'.congress, last'.format)]_vars

\* A listing was registered over a row that holds a committed path, and a
\* listed id beside it got its row with a null path.
C8_Witness ==
    /\ last.op = "register"
    /\ \E id \in last.ids :
           HasRow(files, id, last.format) /\ files[Key(id, last.format)].path # NULL
    /\ \E id \in last.ids : Pending(files, id, last.format)

\* C9: refresh_paths clears the path of exactly the rows whose file_status
\* was 2: those become pending, every other row is unchanged, no row is
\* added or removed, and afterwards no row of any format is missing.
C9_ReconcileFrame ==
    [][last'.op = "refresh_paths" =>
          /\ DOMAIN files' = DOMAIN files
          /\ \A k \in DOMAIN files :
                 IF file_status(files, disk, k[1], k[2]) = 2
                 THEN files'[k] = [files[k] EXCEPT !.path = NULL]
                 ELSE files'[k] = files[k]
          /\ \A k \in DOMAIN files' : file_status(files', disk', k[1], k[2]) # 2]_vars

\* refresh_paths has cleared a missing row of one format and left a present
\* row and a pending row of another format alone.
C9_Witness ==
    /\ last.op = "refresh_paths"
    /\ \E k \in last.cleared : Pending(files, k[1], k[2])
    /\ \E k \in DOMAIN files : file_status(files, disk, k[1], k[2]) = 1
    /\ \E k \in DOMAIN files \ last.cleared : Pending(files, k[1], k[2])
    /\ \E j, k \in DOMAIN files : j[2] # k[2]

\* C10: a refresh_paths that directly follows a refresh_paths, with no call
\* and no filesystem change in between, changes no row.
C10_ReconcileIdempotent ==
    [][(last.op = "refresh_paths" /\ last'.op = "refresh_paths") => files' = files]_vars

\* A first refresh_paths cleared rows and the second, run next, cleared none.
C10_Witness ==
    /\ last.op = "refresh_paths"
    /\ last.prev # None
    /\ last.prev[1] # {}
    /\ last.cleared = {}

\* C12: a file_status(id, f) that directly follows update_path(id, f, p)
\* returns 1 (present) when p exists on disk and 2 (missing) when it does not.
C12_RoundTrip ==
    (last.op = "file_status" /\ last.after # None) =>
        last.result = (IF last.after[1] \in disk THEN 1 ELSE 2)

\* C12 for what the code does: the round trip holds when (id, f) has a row;
\* with no row update_path stores nothing and file_status returns 0.
C12_RoundTripOfRow ==
    (last.op = "file_status" /\ last.after # None) =>
        last.result = (IF ~HasRow(files, last.id, last.format) THEN 0
                       ELSE IF last.after[1] \in disk THEN 1
                       ELSE 2)

\* update_path stored, over another path, a path that is not on disk, and
\* the file_status that followed returned 2.
C12_Witness ==
    /\ last.op = "file_status"
    /\ last.after # None
    /\ HasRow(files, last.id, last.format)
    /\ last.after[1] \notin disk
    /\ last.after[1] # OutputPath(last.id, last.format)
    /\ last.result = 2

\* C13: update_path for an (id, format) without a row leaves the table as it
\* is; for one with a row it sets the path of that row and changes neither
\* its congress, nor any other row, nor the set of rows.
C13_UpdatePathFrame ==
    [][last'.op = "update_path" =>
          IF HasRow(files, last'.id, last'.format)
          THEN /\ DOMAIN files' = DOMAIN files
               /\ \A k \in DOMAIN files :
                      files'[k] = IF k = Key(last'.id, last'.format)
                                  THEN [files[k] EXCEPT !.path = last'.path]
                                  ELSE files[k]
          ELSE files' = files]_vars

\* update_path was called for an (id, format) without a row while the table
\* held rows of other keys, one of them with a path.
C13_Witness ==
    /\ last.op = "update_path"
    /\ ~HasRow(files, last.id, last.format)
    /\ \E k \in DOMAIN files : files[k].path # NULL
    /\ \E k \in DOMAIN files : files[k].path = NULL

-----------------------------------------------------------------------------
(* The download subcommand run without -f/--format: args.format is the     *)
(* argparse default, the str 'txt', and the loop of cli.py line 198 goes   *)
(* over it character by character.                                         *)

\* default='txt' of the --format argument: a Python str
DefaultFormat == <<"t", "x", "t">>

\* One download command without -f, from the empty catalog.
NextDefault ==
    \/ \E sel \in Selections : runs = 0 /\ StartDownload(sel, DefaultFormat)
    \/ \E failAt \in 0..2 : ExpandStep(failAt)
    \/ BeginRun
    \/ \E failAt \in 0..2, r1 \in StatusCodes, r2 \in StatusCodes :
           DownloadStep(failAt, r1, r2)
    \/ EndRun
    \/ Exit

SpecDefault == Init /\ [][NextDefault]_vars

\* C26: a download command without -f calls download_documents once, with
\* format 'txt': the format of every call is "txt", and a call is made only
\* for the first element of args.format, which has no second element.
C26_DefaultIsTxtOnce ==
    /\ format \in {"none", "txt"}
    /\ pc = "loop" => (fmtIdx = 1 /\ Len(fmts) = 1)

====
